---------------------------- MODULE Spec2Model ----------------------------
(***************************************************************************)
(* A model of the session / pagination layer of mcp-zentao:                *)
(*   BaseClient      (client/base_client.py)    request, envelope, paging  *)
(*   SessionClient   (client/session_client.py) get_session_id/login/logout*)
(*   ZenTaoClient    (client/zentao_client.py)  the unified client         *)
(*   Bug/Task/Project/UserClient                the resource facades       *)
(*                                                                         *)
(* Nine specifications share the variables:                                *)
(*   Spec      the unified client's authentication state machine, one      *)
(*             action per public call (the library is synchronous);        *)
(*   SpecPage  one facade running get_all_pages, one action per HTTP       *)
(*             request sent / response received;                           *)
(*   SpecConc  two threads calling login / get_session_id on one client,   *)
(*             one action per read or write of the shared fields and per   *)
(*             request sent / response received;                           *)
(*   SpecCodec one response body at a time through _parse_response, and    *)
(*             typed envelopes serialised and parsed back;                 *)
(*   SpecToken session ids as text: the session_id setter and the          *)
(*             validation of an acquired id;                               *)
(*   SpecMcp   the MCP tool server on top of the unified client, one       *)
(*             action per tool call;                                       *)
(*   SpecQuery the by-status tools down to the request for page 1;         *)
(*   SpecCallers  two callers using the one tool server;                   *)
(*   SpecFetchAll get_all_pages alone, with fairness, for termination.     *)
(* Optional integers are sequences: <<>> is None, <<n>> is the value n.    *)
(***************************************************************************)
EXTENDS Integers, Sequences, FiniteSets

VARIABLES
    \* ---- unified client (zentao_client.py) ----
    session_id,     \* [Clients -> token or None]: each client's _session_id
    cookie,         \* the zentaosid cookie of the shared httpx jar, or None
    current_user,   \* ZenTaoClient._current_user, or None
    authed,         \* history: a login succeeded since the last logout
    last,           \* the last public call: what it sent and how it ended
    http_client,    \* [Clients -> transport]: each client's _client
    released,       \* [Transports -> Nat]: how often its resources were released
    close_calls,    \* calls of ZenTaoClient.close so far
    \* ---- callers sharing one client (SpecConc) ----
    thr,            \* [Threads -> position and locals of its login call]
    minted,         \* session ids the backend started for this client
    \* ---- one response body through _parse_response (SpecCodec) ----
    codec,          \* the body parsed last, the schema, and what came out
    \* ---- the MCP tool server (sk_mcp_server.py, SpecMcp) ----
    mcp_client,        \* ZenTaoMCPServer.client: None or "client"
    mcp_current_user,  \* ZenTaoMCPServer.current_user, or None
    tool,              \* the last tool call: what it returned and called
    reported,          \* items the last by-status tool listed: <<>> or <<n>>
    callers,           \* history: who called last; the login each caller made
    \* ---- backend ----
    srv_user,       \* [Tokens -> user or None]: who each session is logged in as
    recTotal,       \* number of records the backend holds for the list
    changes,        \* how often the record count changed so far
    \* ---- get_all_pages (base_client.py:340-404) ----
    pc,             \* position of the call
    call,           \* its arguments: per_page, max_pages
    results,        \* the local list `results`
    total_pages,    \* the local `total_pages`
    page,           \* the loop variable `page`
    requests,       \* addresses of the HTTP requests sent by this call, in order
    req_params,     \* the query parameters (filter) sent with each of them
    inflight,       \* requests sent and not yet answered
    printed,        \* pages reported by print("获取第{page}页失败") (line 401)
    ret,            \* <<>> until the call returns, then <<returned value>>
    raised          \* <<>> or <<error kind>>: the exception that left the call

authVars == <<session_id, cookie, current_user, authed, last, srv_user>>
wireVars == <<http_client, released, close_calls>>
concVars == <<thr, minted>>
mcpVars == <<mcp_client, mcp_current_user, tool, reported, callers>>
extVars == <<codec, mcpVars>>
pageVars == <<recTotal, changes, pc, call, results, total_pages, page,
              requests, req_params, inflight, printed, ret, raised>>
vars == <<session_id, cookie, current_user, authed, last, srv_user,
          http_client, released, close_calls, thr, minted, codec,
          mcp_client, mcp_current_user, tool, reported, callers,
          recTotal, changes, pc, call, results, total_pages, page,
          requests, req_params, inflight, printed, ret, raised>>

-----------------------------------------------------------------------------
(* Bounds of the model *)

\* largest record count the backend holds
MaxTotal == 5
\* per_page arguments range over MinPerPage..MaxPerPage
MaxPerPage == 2
\* max_pages arguments range over None and 0..MaxPagesArg
MaxPagesArg == 3
\* page size the backend applies to an address that names none (my-bug.json)
ServerPerPage == 2
\* how many times the backend's record count may change during a run
MaxChanges == 1
\* how many times close() is called on one client
MaxCloses == 2
\* page arguments of get_paginated range over 1..MaxPage
MaxPage == 3

None == "none"

\* smallest per_page argument: 0 and one negative value are tried
MinPerPage == 0 - 1

Min(a, b) == IF a < b THEN a ELSE b
Max(a, b) == IF a > b THEN a ELSE b

-----------------------------------------------------------------------------
(* Pagination: addresses, backend answers, get_paginated / get_all_pages *)

\* The address of the first page: f"{base_endpoint}.json" carries neither the
\* total nor per_page nor sort_key (get_paginated, page == 1 branch).
BaseAddress == [page |-> 1, total |-> <<>>, perPage |-> <<>>]

\* An address builder that is one page ahead.
build_paginated_url_skips(rec_total, rec_per_page, page_id) ==
    [page |-> page_id + 1, total |-> <<rec_total>>,
     perPage |-> <<rec_per_page>>]

\* PaginationHelper.build_paginated_url:
\* "{base}-{operation}-{sort_key}-{rec_total}-{rec_per_page}-{page_id}.json"
build_paginated_url(rec_total, rec_per_page, page_id) ==
    [page |-> page_id, total |-> <<rec_total>>, perPage |-> <<rec_per_page>>]

\* The backend's answer to an address while it holds `held` records: the
\* record count it reports and the number of items of the addressed page.
BackendResponse(addr, held) ==
    IF addr.perPage = <<>>
    THEN [page |-> 1, recTotal |-> <<held>>, count |-> Min(held, ServerPerPage)]
    ELSE [page |-> addr.page, recTotal |-> <<held>>,
          count |-> Max(0, Min(addr.perPage[1],
                               held - (addr.page - 1) * addr.perPage[1]))]

\* An extraction that never finds the count and falls back to its default.
extract_rec_total_default(response) == 0

\* BaseClient._extract_rec_total: data.get('recTotal', 0)
extract_rec_total(response) ==
    IF response.recTotal = <<>> THEN 0 ELSE response.recTotal[1]

\* Python's a // b for b # 0: the floor of the quotient, for either sign.
FloorDiv(a, b) == IF b > 0 THEN a \div b ELSE (0 - a) \div (0 - b)

\* total_pages = (rec_total + per_page - 1) // per_page   (per_page # 0)
CeilPages(rec_total, per_page) == FloorDiv(rec_total + per_page - 1, per_page)

\* A limit that replaces the page count instead of capping it.
LimitPagesAssign(pages, max_pages) ==
    IF max_pages # <<>> /\ max_pages[1] # 0
    THEN max_pages[1]
    ELSE pages

\* A limit tested with `is not None`: 0 caps the page count at 0.
LimitPagesZeroCaps(pages, max_pages) ==
    IF max_pages # <<>>
    THEN Min(pages, max_pages[1])
    ELSE pages

\* if max_pages: total_pages = min(total_pages, max_pages)
\* (None and 0 are both falsy)
LimitPages(pages, max_pages) ==
    IF max_pages # <<>> /\ max_pages[1] # 0
    THEN Min(pages, max_pages[1])
    ELSE pages

\* What get_all_pages hands back: the list of page responses and nothing else
\* (-> List[T], `return results`).
AggregatedResult(pages) == [items |-> pages]

ErrorKinds == {"network", "api"}

\* The `status` filter of get_my_bugs / get_my_bugs_all_pages: params is
\* None or {'status': status}.
Filters == {None, "active"}

\* Records the backend lists under a filter while it holds n records: all
\* of them without a filter, the active half of them under status=active.
HeldUnder(filter, n) == IF filter = None THEN n ELSE n \div 2

\* A probe that leaves the caller's params out.
probe_without_params(params) == None

\* get_paginated, page > 1: the first-page request is sent with the
\* caller's params (`params=params`).
probe_params(params) == params

InitPageVars ==
    /\ changes = 0
    /\ pc = "idle"
    /\ call = [per_page |-> 1, max_pages |-> <<>>, filter |-> None]
    /\ results = <<>>
    /\ total_pages = 0
    /\ page = 0
    /\ requests = <<>>
    /\ req_params = <<>>
    /\ inflight = 0
    /\ printed = <<>>
    /\ ret = <<>>
    /\ raised = <<>>

\* get_all_pages is entered: results = [] and the first page is requested
\* through get_paginated(page=1) -> get -> _make_request.
FetchAllCall(p, m, f) ==
    /\ pc = "idle"
    /\ call' = [per_page |-> p, max_pages |-> m, filter |-> f]
    /\ results' = <<>>
    /\ requests' = <<BaseAddress>>
    /\ req_params' = <<f>>
    /\ inflight' = 1
    /\ printed' = <<>>
    /\ ret' = <<>>
    /\ raised' = <<>>
    /\ total_pages' = 0
    /\ page' = 0
    /\ pc' = "first_sent"
    /\ UNCHANGED <<recTotal, changes>>

\* The first page arrives: results.append(first_page); rec_total and
\* total_pages are computed; the loop starts at page 2.
FirstPageOk ==
    /\ pc = "first_sent"
    /\ call.per_page # 0
    /\ LET resp == BackendResponse(BaseAddress,
             HeldUnder(req_params[Len(req_params)], recTotal))
       IN /\ results' = Append(results, resp)
          /\ total_pages' = LimitPages(CeilPages(extract_rec_total(resp),
                                                 call.per_page),
                                       call.max_pages)
    /\ page' = 2
    /\ inflight' = 0
    /\ pc' = "loop"
    /\ UNCHANGED <<recTotal, changes, call, requests, req_params, printed, ret, raised>>

\* The first page arrives for per_page = 0: after results.append the
\* division `// per_page` raises ZeroDivisionError, outside the try.
FirstPageOkDivZero ==
    /\ pc = "first_sent"
    /\ call.per_page = 0
    /\ results' = Append(results, BackendResponse(BaseAddress,
             HeldUnder(req_params[Len(req_params)], recTotal)))
    /\ raised' = <<"ZeroDivisionError">>
    /\ inflight' = 0
    /\ pc' = "raised"
    /\ UNCHANGED <<recTotal, changes, call, total_pages, page, requests, req_params,
                   printed, ret>>

\* The first page fails: outside the try, the exception leaves get_all_pages.
FirstPageFail(kind) ==
    /\ pc = "first_sent"
    /\ raised' = <<kind>>
    /\ inflight' = 0
    /\ pc' = "raised"
    /\ UNCHANGED <<recTotal, changes, call, results, total_pages, page,
                   requests, req_params, printed, ret>>

\* for page in range(2, total_pages + 1): the next iteration calls
\* get_paginated(page), whose else-branch first requests the base address
\* again; after the last iteration `return results`.
LoopStep ==
    /\ pc = "loop"
    /\ IF page <= total_pages
       THEN /\ requests' = Append(requests, BaseAddress)
            /\ req_params' = Append(req_params, probe_params(call.filter))
            /\ inflight' = 1
            /\ pc' = "probe_sent"
            /\ ret' = ret
       ELSE /\ ret' = <<AggregatedResult(results)>>
            /\ pc' = "done"
            /\ UNCHANGED <<requests, req_params, inflight>>
    /\ UNCHANGED <<recTotal, changes, call, results, total_pages, page,
                   printed, raised>>

\* get_paginated, page > 1: the probe answered; rec_total is taken from it
\* and the page address built from it is requested.
ProbeOk ==
    /\ pc = "probe_sent"
    /\ LET probe == BackendResponse(BaseAddress,
             HeldUnder(req_params[Len(req_params)], recTotal))
       IN requests' = Append(requests,
                             build_paginated_url(extract_rec_total(probe),
                                                 call.per_page, page))
    /\ req_params' = Append(req_params, call.filter)
    /\ inflight' = 1
    /\ pc' = "page_sent"
    /\ UNCHANGED <<recTotal, changes, call, results, total_pages, page,
                   printed, ret, raised>>

\* An except clause that goes on with the next page instead of breaking.
PageFailedContinues ==
    /\ printed' = Append(printed, page)
    /\ page' = page + 1
    /\ inflight' = 0
    /\ pc' = "loop"
    /\ UNCHANGED <<recTotal, changes, call, results, total_pages,
                   requests, req_params, ret, raised>>

\* except Exception: print(...); break  -- then `return results`
PageFailed ==
    /\ printed' = Append(printed, page)
    /\ ret' = <<AggregatedResult(results)>>
    /\ inflight' = 0
    /\ pc' = "done"
    /\ UNCHANGED <<recTotal, changes, call, results, total_pages, page,
                   requests, req_params, raised>>

ProbeFail ==
    /\ pc = "probe_sent"
    /\ PageFailed

\* The addressed page arrives: results.append(page_response).
PageOk ==
    /\ pc = "page_sent"
    /\ results' = Append(results,
                         BackendResponse(requests[Len(requests)],
                                         HeldUnder(req_params[Len(req_params)],
                                                   recTotal)))
    /\ page' = page + 1
    /\ inflight' = 0
    /\ pc' = "loop"
    /\ UNCHANGED <<recTotal, changes, call, total_pages, requests, req_params, printed,
                   ret, raised>>

PageFail ==
    /\ pc = "page_sent"
    /\ PageFailed

\* The caller has its result or its exception; the client is ready again.
Finish ==
    /\ pc \in {"done", "raised"}
    /\ pc' = "idle"
    /\ UNCHANGED <<recTotal, changes, call, results, total_pages, page,
                   requests, req_params, inflight, printed, ret, raised>>

\* get_paginated(page, per_page, params) called on its own (get_my_bugs):
\* the base address is requested first, for page 1 as the page itself, for
\* a later page as the probe for the total.
FetchPageCall(p, n, f) ==
    /\ pc = "idle"
    /\ call' = [per_page |-> p, max_pages |-> <<>>, filter |-> f]
    /\ page' = n
    /\ requests' = <<BaseAddress>>
    /\ req_params' = <<IF n = 1 THEN f ELSE probe_params(f)>>
    /\ inflight' = 1
    /\ results' = <<>>
    /\ printed' = <<>>
    /\ ret' = <<>>
    /\ raised' = <<>>
    /\ total_pages' = 0
    /\ pc' = IF n = 1 THEN "fp_single_sent" ELSE "fp_probe_sent"
    /\ UNCHANGED <<recTotal, changes>>

\* page == 1: `return first_page_response`
FetchPageSingleOk ==
    /\ pc = "fp_single_sent"
    /\ ret' = <<BackendResponse(BaseAddress,
                   HeldUnder(req_params[Len(req_params)], recTotal))>>
    /\ inflight' = 0
    /\ pc' = "fp_done"
    /\ UNCHANGED <<recTotal, changes, call, results, total_pages, page,
                   requests, req_params, printed, raised>>

\* page > 1: the probe answered; _extract_rec_total, build_paginated_url,
\* and the page address is requested with the same params.
FetchPageProbeOk ==
    /\ pc = "fp_probe_sent"
    /\ LET probe == BackendResponse(BaseAddress,
                        HeldUnder(req_params[Len(req_params)], recTotal))
       IN requests' = Append(requests,
                             build_paginated_url(extract_rec_total(probe),
                                                 call.per_page, page))
    /\ req_params' = Append(req_params, call.filter)
    /\ inflight' = 1
    /\ pc' = "fp_page_sent"
    /\ UNCHANGED <<recTotal, changes, call, results, total_pages, page,
                   printed, ret, raised>>

\* the addressed page arrives and is returned
FetchPageOk ==
    /\ pc = "fp_page_sent"
    /\ ret' = <<BackendResponse(requests[Len(requests)],
                   HeldUnder(req_params[Len(req_params)], recTotal))>>
    /\ inflight' = 0
    /\ pc' = "fp_done"
    /\ UNCHANGED <<recTotal, changes, call, results, total_pages, page,
                   requests, req_params, printed, raised>>

\* any of its requests fails: get() raises ZenTaoError, nothing catches it
FetchPageFail(kind) ==
    /\ pc \in {"fp_single_sent", "fp_probe_sent", "fp_page_sent"}
    /\ raised' = <<kind>>
    /\ inflight' = 0
    /\ pc' = "fp_raised"
    /\ UNCHANGED <<recTotal, changes, call, results, total_pages, page,
                   requests, req_params, printed, ret>>

\* get_paginated returned or raised; the client is ready again.
FetchPageReturn ==
    /\ pc \in {"fp_done", "fp_raised"}
    /\ pc' = "idle"
    /\ UNCHANGED <<recTotal, changes, call, results, total_pages, page,
                   requests, req_params, inflight, printed, ret, raised>>

\* Records are created or closed on the backend while the client runs.
BackendChange(n) ==
    /\ changes < MaxChanges
    /\ n # recTotal
    /\ recTotal' = n
    /\ changes' = changes + 1
    /\ UNCHANGED <<pc, call, results, total_pages, page, requests, req_params, inflight,
                   printed, ret, raised>>

-----------------------------------------------------------------------------
(* Authentication: envelope, SessionClient, ZenTaoClient, facades *)

Clients == {"session", "user", "project", "task", "bug"}
Facades == {"user", "project", "task", "bug"}
Tokens == {"t1", "t2"}

\* ZenTaoClient._http_client, the httpx.Client made in ZenTaoClient.__init__
Shared == "shared"
\* the httpx.Client that BaseClient.__init__ makes for client c
OwnTransport(c) == c
Transports == {Shared} \cup {OwnTransport(c) : c \in Clients}
Users == {"u1", "u2"}
Msgs == {"wrong password"}

\* response_data.get('message', '未知错误')
UnknownError == "unknown error"
\* f"请求错误: {e}" (_make_request, httpx.RequestError)
RequestError == "request error"
\* raise ValueError("需要先登录才能...") at the head of every facade method
LoginRequired == "login required"

NoError == [err |-> None, status |-> None, msg |-> None]

\* What the backend may answer to one request.
\*   network            no response (httpx.RequestError)
\*   failed             an envelope whose status is "failed", message optional
\*   ok                 a success envelope with a well-formed payload
\*   badjson/notoken/short   (getSessionID only) a success envelope whose inner
\*                      data is not JSON / lacks sessionID / has a short one
Reply(kind, message, token, user, setCookie) ==
    [kind |-> kind, message |-> message, token |-> token, user |-> user,
     setCookie |-> setCookie]

FailureReplies ==
    {Reply("network", None, None, None, FALSE)}
    \cup {Reply("failed", m, None, None, FALSE) : m \in Msgs \cup {None}}

\* GET api-getSessionID.json. The payload names the session cookie
\* (sessionName = "zentaosid") and its value (sessionID); the response may
\* also set that cookie.
AcquireReplies ==
    FailureReplies
    \cup {Reply("ok", None, t, None, b) : t \in Tokens, b \in BOOLEAN}
    \cup {Reply(k, None, None, None, FALSE) : k \in {"badjson", "notoken", "short"}}

\* GET user-login-{sessionid}.json; a success response may set the session
\* cookie again. "nouser": a success envelope without a usable user.
LoginReplies ==
    FailureReplies
    \cup {Reply("ok", None, None, u, b) : u \in Users, b \in BOOLEAN}
    \cup {Reply("nouser", None, None, None, b) : b \in BOOLEAN}

\* GET user-logout-{sessionid}.json and the facades' requests.
PlainReplies == FailureReplies \cup {Reply("ok", None, None, None, FALSE)}

\* A jar rebuilt from each response: a response without Set-Cookie empties it.
JarFromResponseOnly(jar, setCookie) == setCookie

\* httpx keeps the shared jar across requests: a response's Set-Cookie
\* replaces the cookie, a response without one leaves the jar alone.
JarAfterResponse(jar, setCookie) ==
    IF setCookie # None THEN setCookie ELSE jar

\* ZenTaoClient.is_logged_in: a zentaosid cookie with a non-empty value
is_logged_in(jar) == jar # None

\* _make_request + _parse_response: the error a reply raises, or NoError.
parse_response(reply) ==
    CASE reply.kind = "network" ->
            [err |-> "ZenTaoError", status |-> "error", msg |-> RequestError]
      [] reply.kind = "failed" ->
            [err |-> "ZenTaoError", status |-> "failed",
             msg |-> IF reply.message = None THEN UnknownError
                     ELSE reply.message]
      [] OTHER -> NoError

Req(kind, tok) == [kind |-> kind, tok |-> tok]

\* A get_session_id that drops the session id it held when it fails.
get_session_id_clears_on_error(sid, reply) ==
    LET e == parse_response(reply)
    IN CASE e.err # None -> [sid |-> None, e |-> e]
         [] reply.kind = "badjson" ->
              [sid |-> None,
               e |-> [err |-> "JSONDecodeError", status |-> None, msg |-> None]]
         [] reply.kind \in {"notoken", "short"} ->
              [sid |-> None,
               e |-> [err |-> "ValidationError", status |-> None, msg |-> None]]
         [] OTHER -> [sid |-> reply.token, e |-> NoError]

\* SessionClient.get_session_id: the error it raises and the session id it
\* leaves in self.session_id.
get_session_id(sid, reply) ==
    LET e == parse_response(reply)
    IN CASE e.err # None -> [sid |-> sid, e |-> e]
         [] reply.kind = "badjson" ->
              [sid |-> sid,
               e |-> [err |-> "JSONDecodeError", status |-> None, msg |-> None]]
         [] reply.kind \in {"notoken", "short"} ->
              [sid |-> sid,
               e |-> [err |-> "ValidationError", status |-> None, msg |-> None]]
         [] OTHER -> [sid |-> reply.token, e |-> NoError]

\* A getSessionID that starts from an empty jar: whatever cookie the jar held
\* is gone unless the response sets one.
JarAfterAcquireFresh(jar, reply) ==
    JarAfterResponse(None, IF reply.kind = "ok" /\ reply.setCookie
                           THEN reply.token ELSE None)

\* The cookie a getSessionID response leaves in the jar.
JarAfterAcquire(jar, reply) ==
    JarAfterResponse(jar, IF reply.kind = "ok" /\ reply.setCookie
                          THEN reply.token ELSE None)

\* The session a getSessionID request belongs to is the one its zentaosid
\* cookie names: the backend answers with that session's id and starts a
\* new session only for a request without the cookie.
BackendResumes(jar, reply) ==
    (reply.kind = "ok" /\ jar # None) => reply.token = jar

\* The backend's sessions after a getSessionID request sent with cookie
\* `jar`: a session started by the request is logged in as nobody.
SessionsAfterAcquire(srv, jar, reply) ==
    IF reply.kind = "ok" /\ jar = None
    THEN [srv EXCEPT ![reply.token] = None]
    ELSE srv

\* The backend's sessions after a login request: on success the session of
\* the cookie (`jar`: the jar after the response) is logged in as the user.
SessionsAfterLogin(srv, jar, reply) ==
    IF reply.kind = "ok" /\ jar # None
    THEN [srv EXCEPT ![jar] = reply.user]
    ELSE srv

\* The backend's sessions after a logout request that it answered with
\* success: the session of the cookie, else of the path, is logged out.
SessionsAfterLogout(srv, jar, sid, reply) ==
    IF reply.kind = "ok"
    THEN [srv EXCEPT ![IF jar # None THEN jar ELSE sid] = None]
    ELSE srv

\* A login that asks for a new session id on every attempt.
NeedsSessionAlways(sid) == TRUE

\* `if not self.session_id:` (SessionClient.login / logout / ensure_session)
NeedsSession(sid) == sid = None

\* A login after which the jar holds no session cookie.
JarAfterLoginEmptied(jar, reply, sid) == None

\* The cookie a login response leaves in the jar.
JarAfterLogin(jar, reply, sid) ==
    JarAfterResponse(jar, IF reply.setCookie THEN sid ELSE None)

\* The backend logs a session in only if the session carries the zentaosid
\* cookie: one the jar already sends, or one the login response sets ("登录
\* 成功后，zentaosid Cookie会自动保存在共享的HTTP客户端中").
BackendAllows(sid, jar, acq, lr) ==
    (lr.kind \in {"ok", "nouser"} /\ ~lr.setCookie) =>
        (IF sid = None THEN JarAfterAcquire(jar, acq) ELSE jar) # None

\* SessionClient.login: ensure a session id, submit the credentials, build
\* the user. Yields the session id left behind, the error raised, the user
\* returned, the requests sent and the jar afterwards.
\* The backend's sessions after SessionClient.login ran with replies acq, lr
\* and result r.
SessionsAfterSessionLogin(srv, sid, jar, acq, lr, r) ==
    LET srv1 == IF NeedsSession(sid) THEN SessionsAfterAcquire(srv, jar, acq)
                ELSE srv
    IN IF r.reqs # <<>> /\ r.reqs[Len(r.reqs)].kind = "login"
       THEN SessionsAfterLogin(srv1, r.jar, lr)
       ELSE srv1

session_login(sid, jar, acq, lr) ==
    LET need == NeedsSession(sid)
        g == IF need THEN get_session_id(sid, acq) ELSE [sid |-> sid, e |-> NoError]
        jar1 == IF need THEN JarAfterAcquire(jar, acq) ELSE jar
        r0 == IF need THEN <<Req("acquire", None)>> ELSE <<>>
        e == parse_response(lr)
    IN IF g.e.err # None
       THEN [sid |-> g.sid, e |-> g.e, user |-> None, reqs |-> r0, jar |-> jar1]
       ELSE LET r1 == Append(r0, Req("login", g.sid))
            IN CASE e.err # None ->
                      [sid |-> g.sid, e |-> e, user |-> None, reqs |-> r1,
                       jar |-> jar1]
                 [] lr.kind = "nouser" ->
                      [sid |-> g.sid,
                       e |-> [err |-> "ValidationError", status |-> None,
                              msg |-> None],
                       user |-> None, reqs |-> r1,
                       jar |-> JarAfterLogin(jar1, lr, g.sid)]
                 [] OTHER ->
                      [sid |-> g.sid, e |-> NoError, user |-> lr.user,
                       reqs |-> r1, jar |-> JarAfterLogin(jar1, lr, g.sid)]

\* A logout whose except-branch forgets `self.session_id = None`.
session_logout_keeps_on_error(sid, reply) ==
    IF sid = None
    THEN [sid |-> sid, ret |-> "True", reqs |-> <<>>]
    ELSE IF reply.kind = "ok"
         THEN [sid |-> None, ret |-> "True", reqs |-> <<[kind |-> "logout", tok |-> sid]>>]
         ELSE [sid |-> sid, ret |-> "False", reqs |-> <<[kind |-> "logout", tok |-> sid]>>]

\* A logout that sends its request whether or not it holds a session id.
session_logout_always_requests(sid, reply) ==
    [sid |-> None,
     ret |-> IF parse_response(reply).err = None THEN "True" ELSE "False",
     reqs |-> <<Req("logout", sid)>>]

\* SessionClient.logout: without a session id True and no request; else the
\* logout request, and the session id is cleared on both paths.
session_logout(sid, reply) ==
    IF NeedsSession(sid)
    THEN [sid |-> sid, ret |-> "True", reqs |-> <<>>]
    ELSE [sid |-> None,
          ret |-> IF parse_response(reply).err = None THEN "True" ELSE "False",
          reqs |-> <<Req("logout", sid)>>]

\* ZenTaoClient._sync_session_id_to_clients
sync_session_id_to_clients(sids) == [c \in Clients |-> sids["session"]]

\* A wiring that leaves the bug client on the httpx.Client it made itself.
sync_http_clients_skips_bug(own) ==
    [c \in Clients |-> IF c = "bug" THEN own[c] ELSE Shared]

\* ZenTaoClient._sync_http_clients: every sub-client's _client becomes the
\* shared httpx.Client; `own` are the clients they were constructed with.
sync_http_clients(own) == [c \in Clients |-> Shared]

\* The cookie client c sends with its next request: the jar of its transport.
\* A transport other than the shared one has an empty jar, the session
\* cookie being set by responses to the session client only.
CookieSent(c) == IF http_client[c] = Shared THEN cookie ELSE None

\* Whom the backend takes client c's next request for: the user its cookie's
\* session is logged in as, or None.
Principal(c) ==
    IF CookieSent(c) = None THEN None ELSE srv_user[CookieSent(c)]

\* httpx.Client.close: releases the transport unless it is closed already.
httpx_close(rel, t) == IF rel[t] > 0 THEN rel ELSE [rel EXCEPT ![t] = 1]

Last(op, client, e, retv, reqs) ==
    [op |-> op, client |-> client, err |-> e.err, status |-> e.status,
     msg |-> e.msg, ret |-> retv, reqs |-> reqs]

\* ZenTaoClient.__init__: the shared httpx.Client, the five sub-clients each
\* constructed with a client of its own, then _sync_http_clients.
InitWireVars ==
    /\ http_client = sync_http_clients([c \in Clients |-> OwnTransport(c)])
    /\ released = [t \in Transports |-> 0]
    /\ close_calls = 0

\* ZenTaoClient.close (also __exit__): self._http_client.close(), errors
\* swallowed; nothing else is closed.
Close ==
    /\ close_calls < MaxCloses
    /\ close_calls' = close_calls + 1
    /\ released' = httpx_close(released, Shared)
    /\ last' = Last("close", "unified", NoError, None, <<>>)
    /\ UNCHANGED <<http_client, session_id, cookie, current_user, authed,
                   srv_user>>

\* The client is in use: close() has not been called.
Open == close_calls = 0

InitAuthVars ==
    /\ session_id = [c \in Clients |-> None]
    /\ cookie = None
    /\ current_user = None
    /\ authed = FALSE
    /\ last = Last("init", "unified", NoError, None, <<>>)
    /\ srv_user = [t \in Tokens |-> None]

\* ZenTaoClient.get_session_id
GetSessionId(reply) ==
    LET g == get_session_id(session_id["session"], reply)
        s1 == [session_id EXCEPT !["session"] = g.sid]
    IN /\ BackendResumes(cookie, reply)
       /\ session_id' = IF g.e.err = None THEN sync_session_id_to_clients(s1)
                        ELSE s1
       /\ cookie' = JarAfterAcquire(cookie, reply)
       /\ srv_user' = SessionsAfterAcquire(srv_user, cookie, reply)
       /\ last' = Last("get_session_id", "unified", g.e,
                       IF g.e.err = None THEN g.sid ELSE None,
                       <<Req("acquire", None)>>)
       /\ UNCHANGED <<current_user, authed>>

\* ZenTaoClient.sessions.get_session_id: the session facade called directly
SessionsGetSessionId(reply) ==
    LET g == get_session_id(session_id["session"], reply)
    IN /\ BackendResumes(cookie, reply)
       /\ session_id' = [session_id EXCEPT !["session"] = g.sid]
       /\ cookie' = JarAfterAcquire(cookie, reply)
       /\ srv_user' = SessionsAfterAcquire(srv_user, cookie, reply)
       /\ last' = Last("get_session_id", "session", g.e,
                       IF g.e.err = None THEN g.sid ELSE None,
                       <<Req("acquire", None)>>)
       /\ UNCHANGED <<current_user, authed>>

\* ZenTaoClient.login
Login(acq, lr) ==
    LET r == session_login(session_id["session"], cookie, acq, lr)
        s1 == [session_id EXCEPT !["session"] = r.sid]
    IN /\ BackendAllows(session_id["session"], cookie, acq, lr)
       /\ NeedsSession(session_id["session"]) => BackendResumes(cookie, acq)
       /\ srv_user' = SessionsAfterSessionLogin(srv_user, session_id["session"],
                                                cookie, acq, lr, r)
       /\ session_id' = IF r.e.err = None THEN sync_session_id_to_clients(s1)
                        ELSE s1
       /\ cookie' = r.jar
       /\ current_user' = IF r.e.err = None THEN r.user ELSE current_user
       /\ authed' = (authed \/ r.e.err = None)
       /\ last' = Last("login", "unified", r.e, r.user, r.reqs)

\* ZenTaoClient.sessions.login
SessionsLogin(acq, lr) ==
    LET r == session_login(session_id["session"], cookie, acq, lr)
    IN /\ BackendAllows(session_id["session"], cookie, acq, lr)
       /\ NeedsSession(session_id["session"]) => BackendResumes(cookie, acq)
       /\ srv_user' = SessionsAfterSessionLogin(srv_user, session_id["session"],
                                                cookie, acq, lr, r)
       /\ session_id' = [session_id EXCEPT !["session"] = r.sid]
       /\ cookie' = r.jar
       /\ authed' = (authed \/ r.e.err = None)
       /\ last' = Last("login", "session", r.e, r.user, r.reqs)
       /\ UNCHANGED current_user

\* ZenTaoClient.logout
Logout(reply) ==
    LET r == session_logout(session_id["session"], reply)
        s1 == [session_id EXCEPT !["session"] = r.sid]
    IN /\ session_id' = sync_session_id_to_clients(s1)
       /\ current_user' = None
       /\ cookie' = None
       /\ authed' = FALSE
       /\ last' = Last("logout", "unified", NoError, r.ret, r.reqs)
       /\ srv_user' = IF r.reqs = <<>> THEN srv_user
                      ELSE SessionsAfterLogout(srv_user, cookie,
                                               session_id["session"], reply)

\* ZenTaoClient.sessions.logout
SessionsLogout(reply) ==
    LET r == session_logout(session_id["session"], reply)
    IN /\ session_id' = [session_id EXCEPT !["session"] = r.sid]
       /\ authed' = FALSE
       /\ last' = Last("logout", "session", NoError, r.ret, r.reqs)
       /\ srv_user' = IF r.reqs = <<>> THEN srv_user
                      ELSE SessionsAfterLogout(srv_user, cookie,
                                               session_id["session"], reply)
       /\ UNCHANGED <<cookie, current_user>>

\* The facades' operations, one of each kind:
\*   list      get_my_bugs(page=1)        GET my-bug.json
\*   getOne    get_bug_by_id              GET bug-view-{id}-{sessionid}.json
\*   search    search_bugs                GET ...-{sessionid}.json
\*   mutate    resolve_bug                POST, inside try/except: True/False
\*   fetchAll  get_my_bugs_all_pages      its guard and its first request
\*                                        (the rest of the call: SpecPage)
OpKinds == {"list", "getOne", "search", "mutate", "fetchAll"}

\* The session id is part of the path except for the my-* list addresses.
PathToken(kind, sid) == IF kind \in {"list", "fetchAll"} THEN None ELSE sid

\* `if not self.session_id: raise ValueError(...)`, then the request.
facade_call(sid, kind, reply) ==
    IF NeedsSession(sid)
    THEN [e |-> [err |-> "ValueError", status |-> None, msg |-> LoginRequired],
          ret |-> None, reqs |-> <<>>]
    ELSE LET e == parse_response(reply)
             rq == <<Req(kind, PathToken(kind, sid))>>
         IN IF kind = "mutate"
            THEN [e |-> NoError,
                  ret |-> IF e.err = None THEN "True" ELSE "False",
                  reqs |-> rq]
            ELSE [e |-> e, ret |-> IF e.err = None THEN "data" ELSE None,
                  reqs |-> rq]

FacadeCall(f, kind, reply) ==
    LET r == facade_call(session_id[f], kind, reply)
    IN /\ last' = Last(kind, f, r.e, r.ret, r.reqs)
       /\ cookie' = IF r.reqs = <<>> \/ reply.kind = "network" THEN cookie
                    ELSE JarAfterResponse(cookie, None)
       /\ UNCHANGED <<session_id, current_user, authed, srv_user>>

-----------------------------------------------------------------------------
(* Two threads on one SessionClient: no lock guards session_id or the jar *)

Threads == {"A", "B"}

\* A thread's call: pc its position, op the method, ck the cookie its request
\* in flight was sent with, sub the session id it submitted credentials under.
ThreadAt(pc_, op, ck, sub) == [pc |-> pc_, op |-> op, ck |-> ck, sub |-> sub]

InitConcVars ==
    /\ thr = [th \in Threads |-> ThreadAt("idle", "login", None, None)]
    /\ minted = {}

\* login(username, password) is entered
CallLogin(th) ==
    /\ thr[th].pc = "idle"
    /\ thr' = [thr EXCEPT ![th] = ThreadAt("check", "login", None, None)]
    /\ UNCHANGED <<session_id, cookie, authed, srv_user, minted>>

\* get_session_id() is entered
CallGetSessionId(th) ==
    /\ thr[th].pc = "idle"
    /\ thr' = [thr EXCEPT ![th] = ThreadAt("acquire", "get_session_id", None, None)]
    /\ UNCHANGED <<session_id, cookie, authed, srv_user, minted>>

\* `if not self.session_id:` reads the shared field
CheckSession(th) ==
    /\ thr[th].pc = "check"
    /\ thr' = [thr EXCEPT ![th].pc =
                  IF NeedsSession(session_id["session"]) THEN "acquire"
                  ELSE "submit"]
    /\ UNCHANGED <<session_id, cookie, authed, srv_user, minted>>

\* get_session_id sends GET api-getSessionID.json with the jar's cookie
SendAcquire(th) ==
    /\ thr[th].pc = "acquire"
    /\ thr' = [thr EXCEPT ![th].pc = "acq_sent", ![th].ck = cookie]
    /\ UNCHANGED <<session_id, cookie, authed, srv_user, minted>>

\* The answer arrives: the backend resumed the cookie's session or started a
\* new one; `self.session_id = session_data.sessionID` overwrites the field.
RecvAcquire(th, reply) ==
    LET g == get_session_id(session_id["session"], reply)
        fresh == reply.kind = "ok" /\ thr[th].ck = None
    IN /\ thr[th].pc = "acq_sent"
       /\ BackendResumes(thr[th].ck, reply)
       /\ fresh => reply.token \notin minted
       /\ minted' = IF fresh THEN minted \cup {reply.token} ELSE minted
       /\ session_id' = [session_id EXCEPT !["session"] = g.sid]
       /\ cookie' = JarAfterAcquire(cookie, reply)
       /\ srv_user' = SessionsAfterAcquire(srv_user, thr[th].ck, reply)
       /\ thr' = [thr EXCEPT ![th].pc =
                     IF g.e.err # None \/ thr[th].op = "get_session_id"
                     THEN "done" ELSE "submit"]
       /\ UNCHANGED authed

\* self.get('user-login-{sessionid}.json', ..., sessionid=self.session_id):
\* the field is read again when the request is built.
SubmitCredentials(th) ==
    /\ thr[th].pc = "submit"
    /\ thr' = [thr EXCEPT ![th].pc = "login_sent", ![th].ck = cookie,
                          ![th].sub = session_id["session"]]
    /\ UNCHANGED <<session_id, cookie, authed, srv_user, minted>>

\* The login answer arrives.
RecvLogin(th, lr) ==
    LET jar == IF lr.kind \in {"ok", "nouser"}
               THEN JarAfterLogin(cookie, lr, thr[th].sub) ELSE cookie
    IN /\ thr[th].pc = "login_sent"
       /\ (lr.kind \in {"ok", "nouser"} /\ ~lr.setCookie) => thr[th].ck # None
       /\ cookie' = jar
       /\ srv_user' = SessionsAfterLogin(srv_user, jar, lr)
       /\ authed' = (authed \/ lr.kind = "ok")
       /\ thr' = [thr EXCEPT ![th].pc = "done"]
       /\ UNCHANGED <<session_id, minted>>

\* The call returned or raised; the thread may call again.
Return(th) ==
    /\ thr[th].pc = "done"
    /\ thr' = [thr EXCEPT ![th].pc = "idle"]
    /\ UNCHANGED <<session_id, cookie, authed, srv_user, minted>>

-----------------------------------------------------------------------------
(* Response bodies: BaseClient._parse_response and the envelope models *)

\* A JSON value under a key: absent, null, a string or an object.
Val(t, v) == [t |-> t, v |-> v]
Absent == Val("absent", "")
Null == Val("null", "")
Str(v) == Val("str", v)
Obj(v) == Val("obj", v)

\* the text of a JSON object, as the backend puts it into `data`
JsonText(v) == "json:" \o v
IsJsonText(d) == d.t = "str" /\ d.v \in {JsonText("session"), JsonText("bugs")}

StatusVals ==
    {Absent, Null, Str(""), Str("success"), Str("failed"), Str("error")}
MessageVals == {Absent, Null, Str(""), Str("wrong password")}
DataVals ==
    {Absent, Null, Str(JsonText("session")), Str(JsonText("bugs")),
     Str("plain"), Obj("session")}

\* What response.json() yields: a dict with these keys, something that is
\* not a dict, or nothing because the body is not JSON.
Body(kind, status, message, data) ==
    [kind |-> kind, status |-> status, message |-> message, data |-> data]
NotJson == Body("notjson", Absent, Absent, Absent)
NotDict == Body("list", Absent, Absent, Absent)
Bodies ==
    {Body("dict", st, m, d) : st \in StatusVals, m \in MessageVals,
                              d \in DataVals}
    \cup {NotDict, NotJson}

\* response models handed to _parse_response: those with data: str
\* (StringDataResponse, SessionResponse, the list and detail responses) and
\* CommonOperationResponse, which declares no data field
Schemas == {"StringDataResponse", "CommonOperationResponse"}

\* The outcome of _parse_response: a typed envelope or a ZenTaoError. `raw`
\* says that the error's data attribute is the whole decoded body; otherwise
\* `data` is what it holds.
Outcome(kind, status, message, data, raw) ==
    [kind |-> kind, status |-> status, message |-> message, data |-> data,
     raw |-> raw]
NoOutcome == Outcome("none", Absent, Absent, Absent, FALSE)

\* dict.get(key): an absent key reads as None
DictGet(v) == IF v = Absent THEN Null ELSE v

\* response_data.get('message', '未知错误'): the default stands in for an
\* absent key only
MessageOrDefault(v) == IF v = Absent THEN Str(UnknownError) ELSE v

\* status or "error"
StatusOrError(v) == IF v \in {Absent, Null, Str("")} THEN Str("error") ELSE v

\* A validation that decodes a JSON text found in `data`.
validate_data_decoding(schema, d) ==
    IF schema = "StringDataResponse"
    THEN (IF d.t = "str"
          THEN [ok |-> TRUE, v |-> IF IsJsonText(d) THEN Obj(d.v) ELSE d]
          ELSE [ok |-> FALSE, v |-> Null])
    ELSE [ok |-> TRUE, v |-> Absent]

\* model_validate on the data key: `data: str` takes a string as it is and
\* nothing else; a model without the field ignores the key.
validate_data(schema, d) ==
    IF schema = "StringDataResponse"
    THEN [ok |-> d.t = "str", v |-> d]
    ELSE [ok |-> TRUE, v |-> Absent]

\* BaseClient._parse_response
parse_response_body(body, schema) ==
    CASE body.kind = "notjson" ->
            Outcome("ZenTaoError", Str("error"), Str("JSON parse error"),
                    Null, FALSE)
      [] body.kind = "list" ->
            Outcome("ZenTaoError", Str("error"), Str("invalid format"),
                    Null, TRUE)
      [] body.kind = "dict" /\ body.status # Str("success") ->
            Outcome("ZenTaoError", StatusOrError(body.status),
                    MessageOrDefault(body.message), DictGet(body.data), FALSE)
      [] OTHER ->
            LET d == validate_data(schema, body.data)
            IN IF d.ok /\ body.message.t \in {"absent", "null", "str"}
               THEN Outcome("typed", Str("success"), DictGet(body.message),
                            d.v, FALSE)
               ELSE Outcome("ZenTaoError", Str("error"),
                            Str("model validation failed"), Null, TRUE)

\* Typed success envelopes of a schema: status success, message
\* Optional[str], data of the declared type.
Envelopes(schema) ==
    {Outcome("typed", Str("success"), m, d, FALSE) :
        m \in {Null, Str(""), Str("wrong password")},
        d \in {validate_data(schema, x).v :
                 x \in {y \in DataVals : validate_data(schema, y).ok}}}

\* model_dump(mode="json") of a typed envelope: every declared field becomes
\* a key, None becomes null, the enum its value, a string stays a string.
encode(x) == Body("dict", x.status, x.message, x.data)

InitCodec ==
    codec = [op |-> "none", schema |-> "StringDataResponse", body |-> NotJson,
             x |-> NoOutcome, out |-> NoOutcome]

\* A response body arrives and goes through _parse_response.
ParseResponse(body, schema) ==
    codec' = [op |-> "parse", schema |-> schema, body |-> body,
              x |-> NoOutcome, out |-> parse_response_body(body, schema)]

\* A typed envelope is serialised and the text parsed back.
RoundTrip(x, schema) ==
    codec' = [op |-> "roundtrip", schema |-> schema, body |-> encode(x),
              x |-> x, out |-> parse_response_body(encode(x), schema)]

-----------------------------------------------------------------------------
(* Session ids as text: SessionData.validate_session_id and the setter *)

\* `if len(v) < 10` (models/session.py:87)
MinTokenLen == 10

\* Session ids the backend may send or a caller may assign, as text.
LongId == "0123456789abcdef"
TenId == "0123456789"
PaddedId == "abc       "
ShortId == "abc"
BlankId == "          "
EmptyId == ""
TokenTexts == {LongId, TenId, PaddedId, ShortId, BlankId, EmptyId}

\* len(v)
TokenLen(v) ==
    CASE v = LongId -> 16
      [] v = TenId -> 10
      [] v = PaddedId -> 10
      [] v = ShortId -> 3
      [] v = BlankId -> 10
      [] v = EmptyId -> 0

\* v.strip()
Strip(v) ==
    CASE v = PaddedId -> ShortId
      [] v = BlankId -> EmptyId
      [] OTHER -> v

\* SessionData.validate_session_id: the value the field gets, or the error.
\* The length is taken before the value is stripped.
validate_session_id(v) ==
    IF v = EmptyId \/ Strip(v) = EmptyId
    THEN [ok |-> FALSE, v |-> None]
    ELSE IF TokenLen(v) < MinTokenLen
         THEN [ok |-> FALSE, v |-> None]
         ELSE [ok |-> TRUE, v |-> Strip(v)]

\* BaseClient.session_id setter, reached through client.sessions,
\* client.bugs, ...: self._session_id = value
SetSessionId(c, v) ==
    /\ session_id' = [session_id EXCEPT ![c] = v]
    /\ UNCHANGED <<cookie, current_user, authed, last, srv_user>>

\* ZenTaoClient.get_session_id answered by a success envelope whose payload
\* carries the sessionID `raw`: a rejected value raises and leaves the
\* session id alone, an accepted one is stored and synchronised.
AcquireText(raw) ==
    LET r == validate_session_id(raw)
    IN /\ session_id' =
            IF r.ok
            THEN sync_session_id_to_clients(
                     [session_id EXCEPT !["session"] = r.v])
            ELSE session_id
       /\ last' = Last("get_session_id", "unified",
                       IF r.ok THEN NoError
                       ELSE [err |-> "ValidationError", status |-> None,
                             msg |-> None],
                       IF r.ok THEN r.v ELSE None, <<Req("acquire", None)>>)
       /\ UNCHANGED <<cookie, current_user, authed, srv_user>>

-----------------------------------------------------------------------------
(* The MCP tool server: ZenTaoMCPServer (sk_mcp_server.py) *)

\* ValueError("请先登录禅道系统。请使用 login 函数进行登录。")
LoginFirst == "please log in first"
\* "当前没有用户登录"
NobodyLoggedIn == "nobody logged in"

\* What a tool call did: the kind of string it returned ("ok", "failed",
\* "nobody"), the error message inside a failure string, the methods of the
\* backend client it called, and whether an exception left the tool.
Tool(name, retv, msg, calls, raised_) ==
    [name |-> name, ret |-> retv, msg |-> msg, calls |-> calls,
     raised |-> raised_]

\* The callers of the one server instance that run() serves.
Callers == {"A", "B"}

\* Nobody called yet, nobody logged in.
NoCallers == [by |-> None, own |-> [c \in Callers |-> None]]

\* ZenTaoMCPServer.__init__: client = None, current_user = None
InitMcpVars ==
    /\ mcp_client = None
    /\ mcp_current_user = None
    /\ tool = Tool("init", None, None, <<>>, FALSE)
    /\ reported = <<>>
    /\ callers = NoCallers

InitExtVars == InitCodec /\ InitMcpVars

\* A login tool that forgets the user before it asks the client.
mcp_login_resets_first(cur, e, user) ==
    IF e.err = None
    THEN [user |-> user, ret |-> "ok", msg |-> None, raised |-> FALSE]
    ELSE [user |-> None, ret |-> "failed", msg |-> e.msg, raised |-> FALSE]

\* ZenTaoMCPServer.login after client.login ended with e / returned user:
\* current_user is assigned after the call; any exception becomes the
\* returned failure string.
mcp_login(cur, e, user) ==
    IF e.err = None
    THEN [user |-> user, ret |-> "ok", msg |-> None, raised |-> FALSE]
    ELSE [user |-> cur, ret |-> "failed", msg |-> e.msg, raised |-> FALSE]

\* A logout tool that leaves current_user as it is.
mcp_logout_keeps_user(client, cur) ==
    IF client # None /\ cur # None
    THEN [call |-> TRUE, user |-> cur, ret |-> "ok", msg |-> None]
    ELSE [call |-> FALSE, user |-> cur, ret |-> "nobody",
          msg |-> NobodyLoggedIn]

\* ZenTaoMCPServer.logout: `if self.client and self.current_user:` one
\* client.logout() and current_user = None, else the "nobody" string.
mcp_logout(client, cur) ==
    IF client # None /\ cur # None
    THEN [call |-> TRUE, user |-> None, ret |-> "ok", msg |-> None]
    ELSE [call |-> FALSE, user |-> cur, ret |-> "nobody",
          msg |-> NobodyLoggedIn]

\* A query tool without the _ensure_logged_in() line.
mcp_query_unguarded(cur) == [call |-> TRUE, msg |-> None]

\* _ensure_logged_in at the head of every query tool: without a current
\* user ValueError, which the tool's except clause turns into its string.
mcp_query(cur) ==
    IF cur = None THEN [call |-> FALSE, msg |-> LoginFirst]
    ELSE [call |-> TRUE, msg |-> None]

\* The query tools and the one client method each calls: query_bug_list
\* (get_my_bugs or get_my_bugs_all_pages), query_bugs_by_status,
\* query_bug_detail, the same for tasks, query_project_list,
\* query_project_detail.
QueryTools ==
    {<<f, k>> : f \in {"bug", "task"}, k \in {"list", "fetchAll", "getOne"}}
    \cup {<<"project", k>> : k \in {"list", "getOne"}}

\* tool login
McpLogin(acq, lr) ==
    /\ Login(acq, lr)
    /\ mcp_client' = "client"
    /\ LET m == mcp_login(mcp_current_user,
                          [err |-> last'.err, status |-> last'.status,
                           msg |-> last'.msg], last'.ret)
       IN /\ mcp_current_user' = m.user
          /\ tool' = Tool("login", m.ret, m.msg, <<"login">>, m.raised)
    /\ UNCHANGED wireVars

\* tool logout
McpLogout(reply) ==
    LET m == mcp_logout(mcp_client, mcp_current_user)
    IN /\ IF m.call THEN Logout(reply) ELSE UNCHANGED authVars
       /\ mcp_current_user' = m.user
       /\ tool' = Tool("logout", m.ret, m.msg,
                       IF m.call THEN <<"logout">> ELSE <<>>, FALSE)
       /\ UNCHANGED <<mcp_client, wireVars>>

\* tool get_current_user
McpGetCurrentUser ==
    /\ tool' = Tool("get_current_user",
                    IF mcp_current_user # None THEN "ok" ELSE "nobody",
                    IF mcp_current_user # None THEN None ELSE NobodyLoggedIn,
                    <<>>, FALSE)
    /\ UNCHANGED <<authVars, wireVars, mcp_client, mcp_current_user>>

\* a query tool: the guard, _ensure_client, the client call; every
\* exception becomes the returned failure string
McpQuery(f, kind, reply) ==
    LET m == mcp_query(mcp_current_user)
    IN IF m.call
       THEN /\ FacadeCall(f, kind, reply)
            /\ mcp_client' = "client"
            /\ tool' = Tool("query", IF last'.err = None THEN "ok" ELSE "failed",
                            last'.msg, <<kind>>, FALSE)
            /\ UNCHANGED <<mcp_current_user, wireVars>>
       ELSE /\ tool' = Tool("query", "failed", m.msg, <<>>, FALSE)
            /\ UNCHANGED <<authVars, wireVars, mcp_client, mcp_current_user>>

\* ZenTaoMCPServer.close: the client is closed and dropped, current_user
\* cleared. From here on the client fields describe the ZenTaoClient that
\* _ensure_client constructs next; the backend keeps its sessions.
McpClose ==
    /\ mcp_client' = None
    /\ mcp_current_user' = None
    /\ tool' = Tool("close", None, None,
                    IF mcp_client # None THEN <<"close">> ELSE <<>>, FALSE)
    /\ IF mcp_client # None
       THEN /\ session_id' = [c \in Clients |-> None]
            /\ cookie' = None
            /\ current_user' = None
            /\ authed' = FALSE
            /\ last' = Last("close", "unified", NoError, None, <<>>)
            /\ UNCHANGED <<srv_user, wireVars>>
       ELSE UNCHANGED <<authVars, wireVars>>

\* `for bug in bugs: result += ...`: the tool lists every item of the page
\* it got; `limit` is not applied to the list.
listed(count, limit) == count

\* query_bugs_by_status / query_tasks_by_status(status, limit): the guard,
\* then get_my_bugs(status=status, page=1, per_page=limit), which is
\* get_paginated with page == 1.
QueryByStatusCall(limit, status) ==
    /\ mcp_query(mcp_current_user).call
    /\ ~NeedsSession(session_id["bug"])
    /\ FetchPageCall(limit, 1, status)
    /\ tool' = Tool("query_by_status", None, None, <<"list">>, FALSE)
    /\ reported' = <<>>
    /\ UNCHANGED <<mcp_client, mcp_current_user, callers>>

\* the page-1 response arrives
QueryByStatusOk ==
    /\ tool.name = "query_by_status"
    /\ FetchPageSingleOk
    /\ UNCHANGED mcpVars

\* the request fails: get() raises
QueryByStatusFail(kind) ==
    /\ tool.name = "query_by_status"
    /\ FetchPageFail(kind)
    /\ UNCHANGED mcpVars

\* the tool returns: the list of all items it got, or the failure string of
\* its except clause
QueryByStatusReturn ==
    /\ tool.name = "query_by_status"
    /\ FetchPageReturn
    /\ tool' = Tool("query_by_status",
                    IF raised = <<>> THEN "ok" ELSE "failed",
                    IF raised = <<>> THEN None ELSE raised[1],
                    <<"list">>, FALSE)
    /\ reported' = IF raised = <<>>
                   THEN <<listed(ret[1].count, call.per_page)>>
                   ELSE <<>>
    /\ UNCHANGED <<mcp_client, mcp_current_user, callers>>

\* A tool call by caller c: the server keeps no caller in its state; the
\* history records who called and which login each caller performed and
\* did not end.
CallerLogin(c, acq, lr) ==
    /\ McpLogin(acq, lr)
    /\ callers' = [by |-> c,
                   own |-> IF last'.err = None
                           THEN [callers.own EXCEPT ![c] = last'.ret]
                           ELSE callers.own]
    /\ UNCHANGED reported

CallerLogout(c, reply) ==
    /\ McpLogout(reply)
    /\ callers' = [by |-> c, own |-> [callers.own EXCEPT ![c] = None]]
    /\ UNCHANGED reported

CallerQuery(c, f, kind, reply) ==
    /\ McpQuery(f, kind, reply)
    /\ callers' = [callers EXCEPT !.by = c]
    /\ UNCHANGED reported

-----------------------------------------------------------------------------
(* Specifications *)

Init ==
    /\ InitAuthVars
    /\ InitWireVars
    /\ InitConcVars
    /\ InitExtVars
    /\ InitPageVars
    /\ recTotal = 0

Next ==
    \/ \E r \in AcquireReplies :
          Open /\ GetSessionId(r) /\ UNCHANGED <<wireVars, concVars, extVars, pageVars>>
    \/ \E r \in AcquireReplies :
          Open /\ SessionsGetSessionId(r) /\ UNCHANGED <<wireVars, concVars, extVars, pageVars>>
    \/ \E a \in AcquireReplies, l \in LoginReplies :
          Open /\ Login(a, l) /\ UNCHANGED <<wireVars, concVars, extVars, pageVars>>
    \/ \E a \in AcquireReplies, l \in LoginReplies :
          Open /\ SessionsLogin(a, l) /\ UNCHANGED <<wireVars, concVars, extVars, pageVars>>
    \/ \E r \in PlainReplies :
          Open /\ Logout(r) /\ UNCHANGED <<wireVars, concVars, extVars, pageVars>>
    \/ \E r \in PlainReplies :
          Open /\ SessionsLogout(r) /\ UNCHANGED <<wireVars, concVars, extVars, pageVars>>
    \/ \E f \in Facades, k \in OpKinds, r \in PlainReplies :
          Open /\ FacadeCall(f, k, r) /\ UNCHANGED <<wireVars, concVars, extVars, pageVars>>
    \/ Close /\ UNCHANGED <<concVars, extVars, pageVars>>

Spec == Init /\ [][Next]_vars

MaxPagesArgs == {<<>>} \cup {<<k>> : k \in 0..MaxPagesArg}

\* The facade is logged in through the unified client and idle.
InitPage ==
    /\ session_id = [c \in Clients |-> "t1"]
    /\ cookie = "t1"
    /\ current_user = "u1"
    /\ authed = TRUE
    /\ last = Last("login", "unified", NoError, "u1", <<Req("login", "t1")>>)
    /\ srv_user = [t \in Tokens |-> IF t = "t1" THEN "u1" ELSE None]
    /\ InitWireVars
    /\ InitConcVars
    /\ InitExtVars
    /\ InitPageVars
    /\ recTotal \in 0..MaxTotal

NextPage ==
    \/ \E p \in MinPerPage..MaxPerPage, m \in MaxPagesArgs, f \in Filters :
          FetchAllCall(p, m, f) /\ UNCHANGED <<authVars, wireVars, concVars, extVars>>
    \/ FirstPageOk /\ UNCHANGED <<authVars, wireVars, concVars, extVars>>
    \/ FirstPageOkDivZero /\ UNCHANGED <<authVars, wireVars, concVars, extVars>>
    \/ \E k \in ErrorKinds : FirstPageFail(k) /\ UNCHANGED <<authVars, wireVars, concVars, extVars>>
    \/ LoopStep /\ UNCHANGED <<authVars, wireVars, concVars, extVars>>
    \/ ProbeOk /\ UNCHANGED <<authVars, wireVars, concVars, extVars>>
    \/ ProbeFail /\ UNCHANGED <<authVars, wireVars, concVars, extVars>>
    \/ PageOk /\ UNCHANGED <<authVars, wireVars, concVars, extVars>>
    \/ PageFail /\ UNCHANGED <<authVars, wireVars, concVars, extVars>>
    \/ Finish /\ UNCHANGED <<authVars, wireVars, concVars, extVars>>
    \/ \E p \in MinPerPage..MaxPerPage, n \in 1..MaxPage, f \in Filters :
          FetchPageCall(p, n, f) /\ UNCHANGED <<authVars, wireVars, concVars, extVars>>
    \/ FetchPageSingleOk /\ UNCHANGED <<authVars, wireVars, concVars, extVars>>
    \/ FetchPageProbeOk /\ UNCHANGED <<authVars, wireVars, concVars, extVars>>
    \/ FetchPageOk /\ UNCHANGED <<authVars, wireVars, concVars, extVars>>
    \/ \E k \in ErrorKinds :
          FetchPageFail(k) /\ UNCHANGED <<authVars, wireVars, concVars, extVars>>
    \/ FetchPageReturn /\ UNCHANGED <<authVars, wireVars, concVars, extVars>>
    \/ \E n \in 0..MaxTotal : BackendChange(n) /\ UNCHANGED <<authVars, wireVars, concVars, extVars>>

SpecPage == InitPage /\ [][NextPage]_vars

fetchAllRest == <<authVars, wireVars, concVars, extVars>>

\* The steps of a running get_all_pages call: each request it sent is
\* answered or fails, and the loop goes on.
FetchAllStep ==
    \/ FirstPageOk /\ UNCHANGED fetchAllRest
    \/ FirstPageOkDivZero /\ UNCHANGED fetchAllRest
    \/ \E k \in ErrorKinds : FirstPageFail(k) /\ UNCHANGED fetchAllRest
    \/ LoopStep /\ UNCHANGED fetchAllRest
    \/ ProbeOk /\ UNCHANGED fetchAllRest
    \/ ProbeFail /\ UNCHANGED fetchAllRest
    \/ PageOk /\ UNCHANGED fetchAllRest
    \/ PageFail /\ UNCHANGED fetchAllRest

NextFetchAll ==
    \/ \E p \in MinPerPage..MaxPerPage, m \in MaxPagesArgs, f \in Filters :
          FetchAllCall(p, m, f) /\ UNCHANGED fetchAllRest
    \/ FetchAllStep
    \/ Finish /\ UNCHANGED fetchAllRest
    \/ \E n \in 0..MaxTotal : BackendChange(n) /\ UNCHANGED fetchAllRest

\* get_all_pages is synchronous code on a transport with a timeout: a
\* request sent is answered or fails, and the statement after it runs.
SpecFetchAll ==
    InitPage /\ [][NextFetchAll]_vars /\ WF_vars(FetchAllStep)

\* what the threads' steps leave alone
concRest == <<current_user, last, wireVars, extVars, pageVars>>

NextConc ==
    \/ \E th \in Threads : CallLogin(th) /\ UNCHANGED concRest
    \/ \E th \in Threads : CallGetSessionId(th) /\ UNCHANGED concRest
    \/ \E th \in Threads : CheckSession(th) /\ UNCHANGED concRest
    \/ \E th \in Threads : SendAcquire(th) /\ UNCHANGED concRest
    \/ \E th \in Threads, r \in AcquireReplies :
          RecvAcquire(th, r) /\ UNCHANGED concRest
    \/ \E th \in Threads : SubmitCredentials(th) /\ UNCHANGED concRest
    \/ \E th \in Threads, l \in LoginReplies :
          RecvLogin(th, l) /\ UNCHANGED concRest
    \/ \E th \in Threads : Return(th) /\ UNCHANGED concRest

SpecConc == Init /\ [][NextConc]_vars

codecRest == <<authVars, wireVars, concVars, mcpVars, pageVars>>

NextCodec ==
    \/ \E b \in Bodies, sc \in Schemas :
          ParseResponse(b, sc) /\ UNCHANGED codecRest
    \/ \E sc \in Schemas : \E x \in Envelopes(sc) :
          RoundTrip(x, sc) /\ UNCHANGED codecRest

SpecCodec == Init /\ [][NextCodec]_vars

tokenRest == <<wireVars, concVars, extVars, pageVars>>

NextToken ==
    \/ \E c \in Clients, v \in TokenTexts \cup {None} :
          SetSessionId(c, v) /\ UNCHANGED tokenRest
    \/ \E raw \in TokenTexts : AcquireText(raw) /\ UNCHANGED tokenRest

SpecToken == Init /\ [][NextToken]_vars

mcpRest == <<codec, concVars, pageVars, reported, callers>>

NextMcp ==
    \/ \E a \in AcquireReplies, l \in LoginReplies :
          McpLogin(a, l) /\ UNCHANGED mcpRest
    \/ \E r \in PlainReplies : McpLogout(r) /\ UNCHANGED mcpRest
    \/ McpGetCurrentUser /\ UNCHANGED mcpRest
    \/ \E q \in QueryTools, r \in PlainReplies :
          McpQuery(q[1], q[2], r) /\ UNCHANGED mcpRest
    \/ McpClose /\ UNCHANGED mcpRest

SpecMcp == Init /\ [][NextMcp]_vars

\* The tool server is logged in through its client, which is idle.
InitQuery ==
    /\ session_id = [c \in Clients |-> "t1"]
    /\ cookie = "t1"
    /\ current_user = "u1"
    /\ authed = TRUE
    /\ last = Last("login", "unified", NoError, "u1", <<Req("login", "t1")>>)
    /\ srv_user = [t \in Tokens |-> IF t = "t1" THEN "u1" ELSE None]
    /\ InitWireVars
    /\ InitConcVars
    /\ InitCodec
    /\ mcp_client = "client"
    /\ mcp_current_user = "u1"
    /\ tool = Tool("login", "ok", None, <<"login">>, FALSE)
    /\ reported = <<>>
    /\ callers = NoCallers
    /\ InitPageVars
    /\ recTotal \in 0..MaxTotal

queryRest == <<authVars, wireVars, concVars, codec>>

NextQuery ==
    \/ \E limit \in 1..MaxPerPage, st \in Filters :
          QueryByStatusCall(limit, st) /\ UNCHANGED queryRest
    \/ QueryByStatusOk /\ UNCHANGED queryRest
    \/ \E k \in ErrorKinds : QueryByStatusFail(k) /\ UNCHANGED queryRest
    \/ QueryByStatusReturn /\ UNCHANGED queryRest
    \/ \E n \in 0..MaxTotal :
          BackendChange(n) /\ UNCHANGED <<queryRest, mcpVars>>

SpecQuery == InitQuery /\ [][NextQuery]_vars

callersRest == <<codec, concVars, pageVars>>

NextCallers ==
    \/ \E c \in Callers, a \in AcquireReplies, l \in LoginReplies :
          CallerLogin(c, a, l) /\ UNCHANGED callersRest
    \/ \E c \in Callers, r \in PlainReplies :
          CallerLogout(c, r) /\ UNCHANGED callersRest
    \/ \E c \in Callers, q \in QueryTools, r \in PlainReplies :
          CallerQuery(c, q[1], q[2], r) /\ UNCHANGED callersRest

SpecCallers == Init /\ [][NextCallers]_vars

-----------------------------------------------------------------------------
(* Claims about get_all_pages, checked under SpecPage *)

RECURSIVE ItemCount(_)
\* number of items in a list of page responses
ItemCount(pages) ==
    IF pages = <<>> THEN 0
    ELSE pages[1].count + ItemCount(Tail(pages))

\* the call was given a page limit k >= 1 and a page size >= 1
Limited ==
    /\ call.max_pages # <<>>
    /\ call.max_pages[1] >= 1
    /\ call.per_page >= 1

\* C1: when a page beyond page 1 fails, get_all_pages stops, returns the
\* pages gathered so far, raises nothing, and marks the result partial=true.
C1_PartialOnPageFailure ==
    (pc = "done" /\ printed # <<>> /\ call.per_page >= 1) =>
        /\ raised = <<>>
        /\ ret # <<>>
        /\ ret[1].items = results
        /\ Len(printed) = 1
        /\ Len(results) = printed[1] - 1
        /\ "partial" \in DOMAIN ret[1]
        /\ ret[1].partial = TRUE

\* C2: a call with max_pages = k >= 1 sends at most k HTTP requests in total.
C2_AtMostKRequests ==
    Limited => Len(requests) <= call.max_pages[1]

\* C3: a call with max_pages = k >= 1 returns at most k * per_page items.
C3_AtMostKTimesPerPageItems ==
    (pc = "done" /\ Limited) =>
        ItemCount(ret[1].items) <= call.max_pages[1] * call.per_page

\* C4: without a page limit and without failures, the requests after the
\* first are exactly the addresses T-p-2 .. T-p-ceil(T/p), T being the total
\* the first page reported.
C4_ExactFurtherRequests ==
    (pc = "done" /\ call.max_pages = <<>> /\ printed = <<>>
     /\ call.per_page >= 1) =>
        LET T == extract_rec_total(results[1])
            n == CeilPages(T, call.per_page)
        IN requests = <<BaseAddress>> \o
             [i \in 1..Max(n - 1, 0) |->
                 build_paginated_url(T, call.per_page, i + 1)]

\* C5: the page indices requested within one call strictly increase, and at
\* most one request is in flight.
C5_IncreasingOneAtATime ==
    call.per_page >= 1 =>
        /\ inflight <= 1
        /\ \A i, j \in DOMAIN requests :
              i < j => requests[i].page < requests[j].page

\* the position is inside a get_all_pages call or at its end
InFetchAll ==
    pc \in {"first_sent", "loop", "probe_sent", "page_sent", "done", "raised"}

\* C31: per_page applies to page 1 as to every page: the request of a
\* page-1 list call carries the caller's per_page, and the page returned has
\* at most per_page items.
C31_PageOneHonoursPerPage ==
    (pc = "fp_done" /\ page = 1 /\ call.per_page >= 1) =>
        /\ requests[1].perPage = <<call.per_page>>
        /\ ret[1].count <= call.per_page

\* C33: within one get_all_pages call every page address carries the same
\* total, the one the call's first page reported, also when the backend's
\* record count changes while the call runs.
C33_OneTotalPerCall ==
    (InFetchAll /\ call.per_page >= 1) =>
        \A i \in DOMAIN requests :
            requests[i].total # <<>> =>
                /\ results # <<>>
                /\ requests[i].total = <<extract_rec_total(results[1])>>

-----------------------------------------------------------------------------
(* Claims about the unified client, checked under Spec *)

CredentialsSubmitted(l) ==
    l.op = "login" /\ l.reqs # <<>> /\ l.reqs[Len(l.reqs)].kind = "login"

\* C6: after a successful login is_logged_in is true, and while a login is in
\* force it turns false only in a logout step or in a step that fails with an
\* authentication error.
C6_MonotonicAuth ==
    [][ /\ (last'.op = "login" /\ last'.err = None) => is_logged_in(cookie')
        /\ (authed /\ is_logged_in(cookie) /\ ~is_logged_in(cookie')) =>
              \/ last'.op = "logout"
              \/ (last'.op \in {"login", "get_session_id"}
                  /\ last'.err = "ZenTaoError")
      ]_vars

C6_Witness ==
    /\ authed
    /\ last.op \in OpKinds
    /\ last.reqs # <<>>
    /\ is_logged_in(cookie)

\* C7: a login answered with a failed envelope raises the library error with
\* the envelope's message, and is_logged_in stays false if it was false.
C7_FailedLoginStaysUnauthenticated ==
    [][ (CredentialsSubmitted(last') /\ last'.status = "failed") =>
            /\ last'.err = "ZenTaoError"
            /\ last'.msg \in Msgs \cup {UnknownError}
            /\ (~is_logged_in(cookie) => ~is_logged_in(cookie'))
      ]_vars

\* C8: a login whose credentials are refused keeps the session id it
\* submitted them with, and a login that follows sends the credentials with
\* that same session id and requests no new one.
C8_FailedLoginKeepsToken ==
    [][ /\ (CredentialsSubmitted(last') /\ last'.err # None) =>
              /\ session_id'["session"] = last'.reqs[Len(last'.reqs)].tok
              /\ (session_id["session"] # None =>
                     session_id'["session"] = session_id["session"])
        /\ (CredentialsSubmitted(last) /\ last.err # None /\ last'.op = "login") =>
              /\ Len(last'.reqs) = 1
              /\ last'.reqs[1] = Req("login", last.reqs[Len(last.reqs)].tok)
      ]_vars

C8_Witness ==
    /\ CredentialsSubmitted(last)
    /\ last.err = "ZenTaoError"
    /\ Len(last.reqs) = 2
    /\ session_id["session"] = last.reqs[2].tok

C10_FacadeRequiresLogin ==
    (last.op \in OpKinds /\ ~authed) =>
        /\ last.err = "ValueError"
        /\ last.reqs = <<>>

\* C11: at every moment each facade's session id equals the session client's,
\* whether the session was driven through ZenTaoClient or through its
\* `sessions` facade.
C11_FacadesSeeAuthenticatorToken ==
    \A f \in Facades : session_id[f] = session_id["session"]

\* C12: every client sends its requests through the one shared transport, so
\* the cookie a login response left there is the cookie each facade sends.
C12_OneSharedTransport ==
    /\ \A c \in Clients : http_client[c] = Shared
    /\ \A f \in Facades : CookieSent(f) = cookie

C12_Witness ==
    /\ last.op = "login"
    /\ last.err = None
    /\ cookie # None
    /\ \A f \in Facades : CookieSent(f) = cookie

\* C13: once close() was called, once or several times, every transport made
\* for the unified client and its sub-clients has been closed, and none more
\* than once.
C13_CloseReleasesEachOnce ==
    close_calls > 0 => \A t \in Transports : released[t] = 1

\* C14: while a login is in force, get_session_id, however often it is
\* called, leaves is_logged_in true and every facade's next request is still
\* taken by the backend for the same logged-in user.
C14_AcquireKeepsAuthenticated ==
    [][ (last'.op = "get_session_id" /\ authed /\ is_logged_in(cookie)) =>
            /\ is_logged_in(cookie')
            /\ authed'
            /\ \A f \in Facades :
                  /\ Principal(f)' # None
                  /\ Principal(f)' = Principal(f)
      ]_vars

C14_Witness ==
    /\ last.op = "get_session_id"
    /\ last.err = None
    /\ authed
    /\ \A f \in Facades : Principal(f) \in Users

\* C15: when two callers run login or get_session_id concurrently on a
\* client that starts without a session id, the backend starts at most one
\* session, and once both are through no caller has submitted its
\* credentials under a session id other than the one the client holds.
C15_SingleFlight ==
    /\ Cardinality(minted) <= 1
    /\ (\A th \in Threads : thr[th].pc \in {"idle", "done"}) =>
          \A th \in Threads :
             thr[th].sub # None => thr[th].sub = session_id["session"]

\* C16: a mutate action (resolve_bug and the other unverified actions) is
\* refused with an error and sends no request.
C16_UnverifiedMutateRefused ==
    last.op = "mutate" =>
        /\ last.err # None
        /\ last.reqs = <<>>

\* C17: apart from fetchAll no operation returns normally when its request
\* failed: a list, getOne, search or mutate call that sent a request and
\* raised nothing hands back the result of a successful request.
C17_OnlyFetchAllSwallows ==
    (last.op \in OpKinds \ {"fetchAll"} /\ last.reqs # <<>> /\ last.err = None) =>
        last.ret \in {"data", "True"}

C19_PerPageValidated ==
    (pc # "idle" /\ call.per_page <= 0) =>
        /\ requests = <<>>
        /\ pc = "raised"
        /\ raised = <<"ValidationError">>

\* C20: max_pages = 0 is no limit: with max_pages = 0 as with max_pages =
\* None the call computes the unlimited page count ceil(total / per_page),
\* and without failures it returns the pages 1 .. ceil(total / per_page).
C20_ZeroMeansUnlimited ==
    (call.max_pages \in {<<0>>, <<>>} /\ call.per_page >= 1
     /\ results # <<>>) =>
        LET n == CeilPages(extract_rec_total(results[1]), call.per_page)
        IN /\ total_pages = LimitPages(n, <<>>)
           /\ total_pages = n
           /\ (pc = "done" /\ printed = <<>>) =>
                 /\ Len(ret[1].items) = Max(n, 1)
                 /\ \A i \in 1..Max(n, 1) : ret[1].items[i].page = i

C20_Witness ==
    /\ pc = "done"
    /\ call.max_pages = <<0>>
    /\ call.per_page >= 1
    /\ printed = <<>>
    /\ Len(ret[1].items) >= 3

\* a step that sends a request whose address names a page and a total
SendsPageAddress ==
    /\ Len(requests') = Len(requests) + 1
    /\ requests'[Len(requests')].total # <<>>

C30_TotalUnderSameFilter ==
    /\ [](\A i \in DOMAIN requests :
            requests[i].total # <<>> =>
               /\ i > 1
               /\ requests[i - 1] = BaseAddress
               /\ req_params[i - 1] = req_params[i])
    /\ [][ SendsPageAddress =>
              requests'[Len(requests')].total =
                 <<HeldUnder(req_params'[Len(req_params')], recTotal)>> ]_vars

C30_Witness ==
    /\ Len(requests) >= 2
    /\ requests[Len(requests)].total # <<>>
    /\ req_params[Len(requests)] = "active"
    /\ recTotal >= 2
    /\ requests[Len(requests)].total = <<HeldUnder("active", recTotal)>>

\* C24: a get_session_id that fails, fails with the library's own error
\* type, ZenTaoError, also when the success response's inner payload is not
\* JSON, lacks the sessionID or carries one that is too short.
C24_AcquireFailsWithOwnError ==
    (last.op = "get_session_id" /\ last.err # None) =>
        last.err = "ZenTaoError"

\* C25: logout called while no session id is held returns True and sends
\* no request, through the unified client and through the session facade.
C25_LogoutWithoutSession ==
    [][(last'.op = "logout" /\ session_id["session"] = None) =>
          /\ last'.ret = "True"
          /\ last'.reqs = <<>>
          /\ last'.err = None
          /\ session_id'["session"] = None]_vars

C25_Witness ==
    /\ last.op = "logout"
    /\ last.client = "session"
    /\ last.reqs = <<>>
    /\ last.ret = "True"
    /\ session_id["session"] = None

\* C23: every session id held by the session client or a facade is a
\* non-empty string of at least MinTokenLen characters, whatever operation
\* or setter put it there.
C23_TokenWellFormed ==
    \A c \in Clients :
        session_id[c] # None => TokenLen(session_id[c]) >= MinTokenLen

\* C36: a get_session_id that fails, for a transport error, a failed
\* envelope or a malformed payload, leaves the session id of the session
\* client and of every facade as it was, held or absent.
C36_FailedAcquireKeepsToken ==
    [][(last'.op = "get_session_id" /\ last'.err # None) =>
          \A c \in Clients : session_id'[c] = session_id[c]]_vars

C36_Witness ==
    /\ last.op = "get_session_id"
    /\ last.err \in {"JSONDecodeError", "ValidationError"}
    /\ session_id["session"] # None
    /\ session_id["bug"] = session_id["session"]

\* C37: a current user is recorded only while is_logged_in is true, after
\* any sequence of logins, failed logins, logouts and get_session_id calls,
\* through the unified client or its session facade.
C37_UserOnlyWhenLoggedIn ==
    current_user # None => is_logged_in(cookie)

C37_Witness ==
    /\ current_user # None
    /\ is_logged_in(cookie)
    /\ last.op = "logout"
    /\ last.client = "session"
    /\ session_id["session"] = None

-----------------------------------------------------------------------------
(* Claims about response bodies, checked under SpecCodec *)

\* C22: a body whose envelope status is not success never yields a typed
\* result: parsing fails with ZenTaoError carrying the envelope's status, a
\* non-empty message (the backend's message when the envelope has one) and
\* the raw payload.
C22_NonSuccessIsApiError ==
    (codec.op = "parse" /\ codec.body.kind = "dict"
     /\ codec.body.status # Str("success")) =>
        /\ codec.out.kind = "ZenTaoError"
        /\ (codec.body.status.t = "str" /\ codec.body.status.v # "") =>
              codec.out.status = codec.body.status
        /\ codec.out.message.t = "str"
        /\ codec.out.message.v # ""
        /\ (codec.body.message.t = "str" /\ codec.body.message.v # "") =>
              codec.out.message = codec.body.message
        /\ codec.out.raw

-----------------------------------------------------------------------------
(* Claims about the MCP tool server, checked under SpecMcp *)

\* C27: a login tool call whose client login raises does not raise itself:
\* it returns a failure string and current_user is what it was before.
C27_FailedLoginKeepsUser ==
    [][(tool'.name = "login" /\ last'.err # None) =>
          /\ ~tool'.raised
          /\ tool'.ret = "failed"
          /\ mcp_current_user' = mcp_current_user]_vars

C27_Witness ==
    /\ tool.name = "login"
    /\ tool.ret = "failed"
    /\ last.op = "login"
    /\ last.err = "ZenTaoError"
    /\ mcp_current_user # None

\* C28: a query tool called while current_user is absent calls no method of
\* the backend client, leaves the client as it was, and returns the failure
\* string with the "please log in first" message.
C28_QueryNeedsLogin ==
    [][(tool'.name = "query" /\ mcp_current_user = None) =>
          /\ tool'.calls = <<>>
          /\ tool'.ret = "failed"
          /\ tool'.msg = LoginFirst
          /\ ~tool'.raised
          /\ UNCHANGED <<authVars, mcp_client, mcp_current_user>>]_vars

C28_Witness ==
    /\ tool.name = "query"
    /\ tool.msg = LoginFirst
    /\ tool.calls = <<>>
    /\ mcp_current_user = None
    /\ mcp_client # None

\* C29: the logout tool called while a user is logged in calls the client's
\* logout exactly once and leaves current_user absent; called while nobody
\* is logged in it calls nothing and says that nobody is logged in.
C29_LogoutTool ==
    [][tool'.name = "logout" =>
          IF mcp_current_user # None
          THEN /\ tool'.calls = <<"logout">>
               /\ last'.op = "logout"
               /\ mcp_current_user' = None
               /\ tool'.ret = "ok"
          ELSE /\ tool'.calls = <<>>
               /\ tool'.ret = "nobody"
               /\ tool'.msg = NobodyLoggedIn
               /\ UNCHANGED <<authVars, mcp_current_user>>]_vars

C29_Witness ==
    /\ tool.name = "logout"
    /\ tool.calls = <<"logout">>
    /\ tool.ret = "ok"
    /\ mcp_current_user = None
    /\ last.op = "logout"
    /\ last.reqs # <<>>

\* C32: a by-status tool called with `limit` lists at most `limit` items,
\* whatever page size the backend applies.
C32_AtMostLimitItems ==
    reported # <<>> => reported[1] <= call.per_page

\* C38: with several callers on the one server, a query of a caller is run
\* against the backend exactly when that caller's own login is in force:
\* never under a login another caller made, and another caller's logout
\* does not end it.
C38_CallersIsolated ==
    (tool.name = "query" /\ callers.by # None) =>
        (tool.calls # <<>> <=> callers.own[callers.by] # None)

====
